---------------------------- MODULE Spec2Model ----------------------------
(***************************************************************************)
(* cmd-ai (src/bin/ai.js): the response-interpretation and safety-gating   *)
(* pipeline of the ai command line tool.                                   *)
(*                                                                         *)
(* A JavaScript string is modelled as a sequence of one-character strings, *)
(* so that toLowerCase, trim, split, startsWith and the regular            *)
(* expressions of the source are computed character by character.         *)
(***************************************************************************)
EXTENDS Integers, Sequences, FiniteSets, TLC

VARIABLES
    pc,              \* where main (or the driver of a pure function) stands
    config,          \* the parsed ~/.ai-config.json: provider and keys
    userPrompt,      \* args without flags, joined
    explainMode,     \* args.includes('--explain')
    dryRun,          \* args.includes('--dry')
    rawModelOutput,  \* what the provider returned
    command,         \* parseModelOutput(...).command
    explanation,     \* parseModelOutput(...).explanation, Null when null
    verdict,         \* the value isDangerous returned, FALSE before the call
    confirm,         \* the line the user typed at the confirmation prompt
    asked,           \* number of confirmation prompts shown
    execLog,         \* the commands handed to child_process.exec, in order
    shown,           \* whether the raw output was printed as "Full AI output"
    history,         \* ~/.ai-command-history.json
    configFile,      \* ~/.ai-config.json
    operands,        \* <<c1, separator, c2>> of the composition driver
    partVerdicts,    \* <<isDangerous(c1), isDangerous(c2)>> of that driver
    localPipeline,        \* the engine handle of line 15, Null when null
    localPipelineStatus,  \* line 16: unloaded, loading, loaded, error, downloading
    lastProgress,         \* line 23
    calls,           \* the pending and finished calls of the async engine functions
    pipelineCalls,   \* number of pipeline(...) constructions started
    progressLog      \* the percentages downloadProgressCallback wrote, in order

\* the module-level state of the local engine and what its callers did
engineVars == <<localPipeline, localPipelineStatus, lastProgress, calls,
                pipelineCalls, progressLog>>

\* the locals of main and of the drivers of the pure functions
mainVars == <<pc, configFile, config, userPrompt, explainMode, dryRun, rawModelOutput, command,
              explanation, verdict, confirm, asked, execLog, shown, history,
              operands, partVerdicts>>

vars == <<pc, configFile, config, userPrompt, explainMode, dryRun, rawModelOutput, command,
          explanation, verdict, confirm, asked, execLog, shown, history,
          operands, partVerdicts, localPipeline, localPipelineStatus,
          lastProgress, calls, pipelineCalls, progressLog>>

-----------------------------------------------------------------------------
(* Characters and the character classes of the regular expressions.         *)

UpperCase == <<"A","B","C","D","E","F","G","H","I","J","K","L","M",
               "N","O","P","Q","R","S","T","U","V","W","X","Y","Z">>
LowerCase == <<"a","b","c","d","e","f","g","h","i","j","k","l","m",
               "n","o","p","q","r","s","t","u","v","w","x","y","z">>
Digits == {"0","1","2","3","4","5","6","7","8","9"}

Range(f) == {f[i] : i \in DOMAIN f}

\* String.prototype.toLowerCase on one character
ToLowerChar(c) ==
    IF \E i \in DOMAIN UpperCase : UpperCase[i] = c
    THEN LowerCase[CHOOSE i \in DOMAIN UpperCase : UpperCase[i] = c]
    ELSE c

\* \s of a JavaScript regular expression (the whitespace of the model's alphabet)
IsWs(c) == c \in {" ", "\t", "\n", "\r"}

\* \w of a JavaScript regular expression
IsWord(c) == c \in Range(UpperCase) \cup Range(LowerCase) \cup Digits \cup {"_"}

\* The backquote character (U+0060), which cannot be written in a string here
Backquote == "backquote"

\* [ ' " backquote \s ] of the cleanup expressions
IsPadding(c) == c \in {"'", "\"", Backquote} \/ IsWs(c)

-----------------------------------------------------------------------------
(* String operations of JavaScript.                                         *)

ToLowerCase(s) == [i \in 1..Len(s) |-> ToLowerChar(s[i])]

\* s.substring(from - 1, to) with 1-based, inclusive bounds
Slice(s, from, to) == [i \in 1..(IF to >= from THEN to - from + 1 ELSE 0) |-> s[from + i - 1]]

StartsWithAt(s, i, p) ==
    /\ i + Len(p) - 1 <= Len(s)
    /\ \A k \in 1..Len(p) : s[i + k - 1] = p[k]

\* String.prototype.startsWith
StartsWith(s, p) == StartsWithAt(s, 1, p)

\* String.prototype.includes
Includes(s, p) == \E i \in 1..(Len(s) + 1) : StartsWithAt(s, i, p)

\* String.prototype.trim
TrimStart(s) ==
    LET first == {i \in 1..Len(s) : ~IsWs(s[i])}
    IN IF first = {} THEN <<>>
       ELSE Slice(s, CHOOSE i \in first : \A j \in first : i <= j, Len(s))
TrimEnd(s) ==
    LET last == {i \in 1..Len(s) : ~IsWs(s[i])}
    IN IF last = {} THEN <<>>
       ELSE Slice(s, 1, CHOOSE i \in last : \A j \in last : i >= j)
Trim(s) == TrimEnd(TrimStart(s))

\* s.replace(/\s+/g, ' '): every maximal run of whitespace becomes one space
RECURSIVE CollapseFrom(_, _)
CollapseFrom(s, i) ==
    IF i > Len(s) THEN <<>>
    ELSE IF IsWs(s[i])
         THEN IF i > 1 /\ IsWs(s[i - 1])
              THEN CollapseFrom(s, i + 1)
              ELSE <<" ">> \o CollapseFrom(s, i + 1)
         ELSE <<s[i]>> \o CollapseFrom(s, i + 1)
CollapseWhitespace(s) == CollapseFrom(s, 1)

\* s.replace(/\\+$/, ''): the trailing run of backslashes is removed
StripTrailingBackslashes(s) ==
    LET keep == {i \in 1..Len(s) : s[i] # "\\"}
    IN IF keep = {} THEN <<>>
       ELSE Slice(s, 1, CHOOSE i \in keep : \A j \in keep : i >= j)

\* s.replace(/\n/g, ';')
NewlinesToSemicolons(s) == [i \in 1..Len(s) |-> IF s[i] = "\n" THEN ";" ELSE s[i]]

\* Length of the match of /;|&&|\|\||\(|\)|\{|\}/ at position i, 0 when none
SeparatorLenAt(s, i) ==
    IF s[i] \in {";", "(", ")", "{", "}"} THEN 1
    ELSE IF i < Len(s) /\ s[i] = "&" /\ s[i + 1] = "&" THEN 2
    ELSE IF i < Len(s) /\ s[i] = "|" /\ s[i + 1] = "|" THEN 2
    ELSE 0

\* normalized.split(/;|&&|\|\||\(|\)|\{|\}/): scanned left to right
RECURSIVE SplitFrom(_, _, _)
SplitFrom(s, i, cur) ==
    IF i > Len(s) THEN <<cur>>
    ELSE LET n == SeparatorLenAt(s, i)
         IN IF n > 0
            THEN <<cur>> \o SplitFrom(s, i + n, <<>>)
            ELSE SplitFrom(s, i + 1, Append(cur, s[i]))
SplitSubcommands(s) == SplitFrom(s, 1, <<>>)

\* .map(s => s.trim()).filter(s => s !== '')
RECURSIVE TrimAndDropEmpty(_)
TrimAndDropEmpty(segs) ==
    IF segs = <<>> THEN <<>>
    ELSE LET t == Trim(Head(segs))
         IN IF t = <<>> THEN TrimAndDropEmpty(Tail(segs))
            ELSE <<t>> \o TrimAndDropEmpty(Tail(segs))

-----------------------------------------------------------------------------
(* isDangerous (src/bin/ai.js, 48-121).                                     *)

blackListPatterns == <<
    <<"r","m"," ","-","r","f"," ","/">>,  \* rm -rf /
    <<"r","m"," ","-","r","f"," ","~">>,  \* rm -rf ~
    <<"r","m"," ","-","r","f"," ",".","*">>,  \* rm -rf .*
    <<"r","m"," ","-","r","f"," ","*">>,  \* rm -rf *
    <<"r","m"," ","-","-","n","o","-","p","r","e","s","e","r","v","e","-","r","o","o","t">>,  \* rm --no-preserve-root
    <<"r","m"," ","-","r"," ","-","-","n","o","-","p","r","e","s","e","r","v","e","-","r","o","o","t"," ","/">>,  \* rm -r --no-preserve-root /
    <<"m","k","f","s">>,  \* mkfs
    <<"m","k","f","s",".","e","x","t","4">>,  \* mkfs.ext4
    <<"m","k","f","s",".","x","f","s">>,  \* mkfs.xfs
    <<"m","k","f","s",".","v","f","a","t">>,  \* mkfs.vfat
    <<"d","d"," ","i","f","=">>,  \* dd if=
    <<"d","d"," ","o","f","=","/","d","e","v","/">>,  \* dd of=/dev/
    <<":","(",")","{",":","|",":","&","}",";",":">>,  \* :(){:|:&};:
    <<">",":","(",")">>,  \* >:()
    <<"s","h","u","t","d","o","w","n">>,  \* shutdown
    <<"r","e","b","o","o","t">>,  \* reboot
    <<"h","a","l","t">>,  \* halt
    <<"p","o","w","e","r","o","f","f">>,  \* poweroff
    <<"i","n","i","t"," ","0">>,  \* init 0
    <<"i","n","i","t"," ","6">>,  \* init 6
    <<"k","i","l","l"," ","-","9"," ","1">>,  \* kill -9 1
    <<"m","v"," ","/">>,  \* mv /
    <<"c","h","m","o","d"," ","0","0","0">>,  \* chmod 000
    <<"c","h","m","o","d"," ","-","r"," ","0","0","0"," ","/">>,  \* chmod -r 000 /
    <<"c","h","o","w","n"," ","r","o","o","t">>,  \* chown root
    <<"y","e","s"," ",">"," ","/","d","e","v","/">>,  \* yes > /dev/
    <<">","/","d","e","v","/">>,  \* >/dev/
    <<"m","o","u","n","t"," ","-","o"," ","b","i","n","d"," ","/"," ","/","d","e","v","/","n","u","l","l">>,  \* mount -o bind / /dev/null
    <<"c","r","o","n","t","a","b"," ","-","r">>,  \* crontab -r
    <<"e","c","h","o"," ",".","*"," ",">">>,  \* echo .* >
    <<"c","a","t"," ","/","d","e","v","/","u","r","a","n","d","o","m"," ",">">>,  \* cat /dev/urandom >
    <<"f","i","n","d"," ","/"," ","-","e","x","e","c"," ","r","m">>,  \* find / -exec rm
    <<"f","i","n","d"," ","/"," ","-","d","e","l","e","t","e">>,  \* find / -delete
    <<"w","i","p","e","f","s">>,  \* wipefs
    <<"s","h","r","e","d">>,  \* shred
    <<"n","o","h","u","p"," ",".","*"," ",">","/","d","e","v","/","n","u","l","l"," ","2",">","&","1"," ","&">>,  \* nohup .* >/dev/null 2>&1 &
    <<"c","u","r","l"," ",".","*"," ","|"," ","s","h">>,  \* curl .* | sh
    <<"w","g","e","t"," ",".","*"," ","|"," ","s","h">>,  \* wget .* | sh
    <<"b","a","s","e","6","4"," ","-","d"," ","<","<","<"," ",".","*"," ","|"," ","s","h">>   \* base64 -d <<< .* | sh
    >>

\* (sh|bash|zsh|csh|ksh|python|perl|ruby) of the pipe expression
Interpreters == {
    <<"s","h">>, <<"b","a","s","h">>, <<"z","s","h">>, <<"c","s","h">>,
    <<"k","s","h">>, <<"p","y","t","h","o","n">>, <<"p","e","r","l">>,
    <<"r","u","b","y">> }

AllWs(s, from, to) == \A k \in from..to : IsWs(s[k])

\* The pipe expression without its end-of-text alternative: (-c|\s)
PipeToInterpreter_noEnd(s) ==
    \E i \in 1..Len(s) :
        /\ s[i] = "|"
        /\ \E j \in (i + 1)..Len(s) :
            /\ AllWs(s, i + 1, j - 1)
            /\ \E name \in Interpreters :
                /\ StartsWithAt(s, j, name)
                /\ \E m \in (j + Len(name))..Len(s) :
                    /\ AllWs(s, j + Len(name), m - 1)
                    /\ \/ StartsWithAt(s, m, <<"-","c">>)
                       \/ IsWs(s[m])

\* /\s*\|\s*(sh|bash|zsh|csh|ksh|python|perl|ruby)\s*(-c|\s|$)/.test(s)
\* The leading \s* may match nothing, so a match starts at a "|"; i is the
\* "|", j the interpreter's first character, m the position after the
\* second \s*.
PipeToInterpreter(s) ==
    \E i \in 1..Len(s) :
        /\ s[i] = "|"
        /\ \E j \in (i + 1)..Len(s) :
            /\ AllWs(s, i + 1, j - 1)
            /\ \E name \in Interpreters :
                /\ StartsWithAt(s, j, name)
                /\ \E m \in (j + Len(name))..(Len(s) + 1) :
                    /\ AllWs(s, j + Len(name), m - 1)
                    /\ \/ StartsWithAt(s, m, <<"-","c">>)
                       \/ (m <= Len(s) /\ IsWs(s[m]))
                       \/ m = Len(s) + 1

\* lines 50-54
Normalize(cmd) ==
    NewlinesToSemicolons(StripTrailingBackslashes(CollapseWhitespace(ToLowerCase(cmd))))

\* lines 58-61
Subcommands(normalized) == TrimAndDropEmpty(SplitSubcommands(normalized))

\* lines 117-120
StartsWithBlacklisted(sub) ==
    \E p \in DOMAIN blackListPatterns : StartsWith(sub, blackListPatterns[p])

\* isDangerous looking at the first subcommand only
isDangerous_firstSubcommand(cmd) ==
    LET normalized == Normalize(cmd)
        subcommands == Subcommands(normalized)
    IN IF PipeToInterpreter(normalized) THEN TRUE
       ELSE subcommands # <<>> /\ StartsWithBlacklisted(subcommands[1])

\* isDangerous matching with includes in place of startsWith, as the earlier
\* version of the tool did (src/unnamed/part_001, 77-79)
isDangerous_substring(cmd) ==
    LET normalized == Normalize(cmd)
        subcommands == Subcommands(normalized)
    IN IF PipeToInterpreter(normalized) THEN TRUE
       ELSE \E k \in DOMAIN subcommands :
                \E p \in DOMAIN blackListPatterns :
                    Includes(subcommands[k], blackListPatterns[p])

isDangerous(cmd) ==
    LET normalized == Normalize(cmd)
        subcommands == Subcommands(normalized)
    IN IF PipeToInterpreter(normalized) THEN TRUE
       ELSE \E k \in DOMAIN subcommands : StartsWithBlacklisted(subcommands[k])

-----------------------------------------------------------------------------
(* parseModelOutput (src/bin/ai.js, 292-405).                               *)

\* The null of JavaScript, as a value comparable with the strings of the model
Null == <<"null">>

Fence == <<Backquote, Backquote, Backquote>>

\* The alternatives (hi|hello|...|here's) of conversationalStarts (318) and
\* conversationalLineRegex (339), which are the same expression
ConversationalOpeners == {
    <<"h","i">>,  \* hi
    <<"h","e","l","l","o">>,  \* hello
    <<"h","e","y">>,  \* hey
    <<"g","r","e","e","t","i","n","g","s">>,  \* greetings
    <<"i"," ","a","m">>,  \* i am
    <<"i","'","m">>,  \* i'm
    <<"a","s"," ","a"," ","l","a","r","g","e"," ","l","a","n","g","u","a","g","e"," ","m","o","d","e","l">>,  \* as a large language model
    <<"i"," ","c","a","n","n","o","t">>,  \* i cannot
    <<"i","'","m"," ","s","o","r","r","y">>,  \* i'm sorry
    <<"i"," ","u","n","d","e","r","s","t","a","n","d">>,  \* i understand
    <<"o","k","a","y">>,  \* okay
    <<"s","u","r","e">>,  \* sure
    <<"a","l","r","i","g","h","t">>,  \* alright
    <<"o","f"," ","c","o","u","r","s","e">>,  \* of course
    <<"y","o","u"," ","c","a","n">>,  \* you can
    <<"y","o","u"," ","c","o","u","l","d">>,  \* you could
    <<"t","o"," ","d","o"," ","t","h","a","t">>,  \* to do that
    <<"h","e","r","e"," ","i","s">>,  \* here is
    <<"h","e","r","e","'","s">>   \* here's
    }

\* /^(?:(hi|hello|...)|[^\s]+:)/i.test(line): an opener at the start, in any
\* case, or a run of non-blank characters followed by a colon
ConversationalStart(line) ==
    \/ \E o \in ConversationalOpeners : StartsWith(ToLowerCase(line), o)
    \/ \E n \in 1..(Len(line) - 1) :
        /\ \A k \in 1..n : ~IsWs(line[k])
        /\ line[n + 1] = ":"

\* [>|!$%&*+,-./:;=?@^_~] of commandStartRegex; ",-." is the range , - .
ShellSymbols == {">", "|", "!", "$", "%", "&", "*", "+", ",", "-", ".", "/",
                 ":", ";", "=", "?", "@", "^", "_", "~"}

\* /^[a-zA-Z0-9_-]+|^\.|\/|~|^[>|!$%&*+,-./:;=?@^_~]/.test(line): of the five
\* alternatives the third and the fourth are not anchored
CommandStart(line) ==
    \/ (line # <<>> /\ (IsWord(line[1]) \/ line[1] = "-"))
    \/ (line # <<>> /\ line[1] = ".")
    \/ Includes(line, <<"/">>)
    \/ Includes(line, <<"~">>)
    \/ (line # <<>> /\ line[1] \in ShellSymbols)

\* s.split('\n')
RECURSIVE LinesFrom(_, _, _)
LinesFrom(s, i, cur) ==
    IF i > Len(s) THEN <<cur>>
    ELSE IF s[i] = "\n" THEN <<cur>> \o LinesFrom(s, i + 1, <<>>)
    ELSE LinesFrom(s, i + 1, Append(cur, s[i]))
SplitLines(s) == LinesFrom(s, 1, <<>>)

\* lines.join('\n')
RECURSIVE JoinLines(_)
JoinLines(lines) ==
    IF lines = <<>> THEN <<>>
    ELSE IF Len(lines) = 1 THEN lines[1]
    ELSE lines[1] \o <<"\n">> \o JoinLines(Tail(lines))

\* s.replace(/^['"`\s]+/, '')
StripPaddingStart(s) ==
    LET first == {i \in 1..Len(s) : ~IsPadding(s[i])}
    IN IF first = {} THEN <<>>
       ELSE Slice(s, CHOOSE i \in first : \A j \in first : i <= j, Len(s))

\* s.replace(/['"`\s]+$/, '')
StripPaddingEnd(s) ==
    LET last == {i \in 1..Len(s) : ~IsPadding(s[i])}
    IN IF last = {} THEN <<>>
       ELSE Slice(s, 1, CHOOSE i \in last : \A j \in last : i >= j)

\* lines 313 and 374
StripPadding(s) == StripPaddingEnd(StripPaddingStart(s))

\* s.replace(/^X\s+/, '') for the prompt marker X: the marker goes only when
\* whitespace follows it, and with all of that whitespace
StripMarker(s, marker) ==
    IF Len(s) >= 2 /\ s[1] = marker /\ IsWs(s[2])
    THEN TrimStart(Tail(s))
    ELSE s

\* line 376
StripShellPrompt(s) == StripMarker(StripMarker(s, "$"), "#")

\* Length of the maximal run of \w, and of \s, that starts at position j
WordRunLen(s, j) ==
    LET stop == {x \in j..Len(s) : ~IsWord(s[x])}
    IN IF stop = {} THEN (IF j > Len(s) THEN 0 ELSE Len(s) - j + 1)
       ELSE (CHOOSE x \in stop : \A y \in stop : x <= y) - j
WsRunLen(s, j) ==
    LET stop == {x \in j..Len(s) : ~IsWs(s[x])}
    IN IF stop = {} THEN (IF j > Len(s) THEN 0 ELSE Len(s) - j + 1)
       ELSE (CHOOSE x \in stop : \A y \in stop : x <= y) - j

\* The matches of the fence expression /(fence)(?:\w+)?\s*([\s\S]+?)(fence)/s
\* that start at position i, each given by the length w of the language tag,
\* the length k of the whitespace after it and the position e of the closing
\* fence; the content s[c..e-1], c = i+3+w+k, holds at least one character.
FenceMatchesAt(s, i) ==
    IF ~StartsWithAt(s, i, Fence) THEN {}
    ELSE UNION {
           UNION {
             {[w |-> w, k |-> k, e |-> e] :
                 e \in {x \in (i + 3 + w + k + 1)..Len(s) : StartsWithAt(s, x, Fence)}}
             : k \in 0..WsRunLen(s, i + 3 + w)}
           : w \in 0..WordRunLen(s, i + 3)}

\* The match the backtracking search finds first: the tag is greedy, then
\* the whitespace is greedy, then the content is lazy.
Preferred(m, n) ==
    \/ m.w > n.w
    \/ (m.w = n.w /\ m.k > n.k)
    \/ (m.w = n.w /\ m.k = n.k /\ m.e <= n.e)

\* command.match(fencedCodeBlockRegex): the leftmost start, and there the
\* preferred match; index is fencedMatch.index (0-based), group is
\* fencedMatch[1]
FencedMatch(s) ==
    LET starts == {i \in 1..Len(s) : FenceMatchesAt(s, i) # {}}
    IN IF starts = {} THEN [found |-> FALSE, index |-> 0, group |-> <<>>]
       ELSE LET i == CHOOSE x \in starts : \A y \in starts : x <= y
                ms == FenceMatchesAt(s, i)
                m == CHOOSE x \in ms : \A y \in ms : Preferred(x, y)
            IN [found |-> TRUE, index |-> i - 1,
                group |-> Slice(s, i + 3 + m.w + m.k, m.e - 1)]

\* lines 319-331: the explanation without its blank lines, cut at the first
\* conversational line
RECURSIVE DropBlankLines(_)
DropBlankLines(lines) ==
    IF lines = <<>> THEN <<>>
    ELSE IF Trim(Head(lines)) = <<>> THEN DropBlankLines(Tail(lines))
    ELSE <<Head(lines)>> \o DropBlankLines(Tail(lines))

RECURSIVE TakeUntilConversational(_)
TakeUntilConversational(lines) ==
    IF lines = <<>> THEN <<>>
    ELSE IF ConversationalStart(Trim(Head(lines))) THEN <<>>
    ELSE <<Head(lines)>> \o TakeUntilConversational(Tail(lines))

CleanExplanation(expl) ==
    LET cleaned == Trim(JoinLines(TakeUntilConversational(DropBlankLines(SplitLines(expl)))))
    IN IF cleaned = <<>> THEN Null ELSE cleaned

\* lines 343-356: the index (1-based, 0 when none) of the first line that is
\* not blank, looks like the start of a command and is not conversational
firstCommandLineIndex(lines) ==
    LET hits == {i \in 1..Len(lines) :
                    LET trimmedLine == Trim(lines[i])
                    IN /\ trimmedLine # <<>>
                       /\ CommandStart(trimmedLine)
                       /\ ~ConversationalStart(ToLowerCase(trimmedLine))}
    IN IF hits = {} THEN 0 ELSE CHOOSE i \in hits : \A j \in hits : i <= j

\* lines 302-332: a fenced block was found
ParseFenced(output, fencedMatch) ==
    LET explanationPart == Trim(Slice(output, 1, fencedMatch.index))
    IN [command |-> StripPadding(Trim(fencedMatch.group)),
        explanation |-> IF explanationPart = <<>> THEN Null
                        ELSE CleanExplanation(explanationPart)]

\* lines 333-387: no fenced block, the lines are scanned
ParseLines(output, explain) ==
    LET lines == SplitLines(output)
        idx == firstCommandLineIndex(lines)
    IN IF idx # 0
       THEN LET before == Trim(JoinLines(SubSeq(lines, 1, idx - 1)))
                rest == Trim(JoinLines(SubSeq(lines, idx, Len(lines))))
            IN [command |-> StripShellPrompt(StripPadding(rest)),
                explanation |-> IF explain /\ before # <<>> THEN before ELSE Null]
       ELSE [command |-> Trim(output), explanation |-> Null]

\* lines 389-402: an empty command falls back to the whole output
FinalCheck(output, r) ==
    IF r.command = <<>>
    THEN [command |-> Trim(output), explanation |-> Null]
    ELSE [command |-> r.command,
          explanation |-> IF r.explanation # Null /\ Trim(r.explanation) # <<>>
                          THEN Trim(r.explanation) ELSE Null]

parseModelOutput(output, explain) ==
    LET fencedMatch == FencedMatch(Trim(output))
    IN FinalCheck(output,
                  IF fencedMatch.found THEN ParseFenced(output, fencedMatch)
                  ELSE ParseLines(output, explain))

-----------------------------------------------------------------------------
(* saveHistory (src/bin/ai.js, 29-46).  The history file is its parsed     *)
(* entries, or unreadable (JSON.parse throws); a file that does not exist   *)
(* reads as no entries.  Writing the file is taken to succeed.              *)

HistoryLimit == 1000

\* arr.slice(-n)
SliceLast(arr, n) == IF Len(arr) <= n THEN arr ELSE SubSeq(arr, Len(arr) - n + 1, Len(arr))

saveHistory(file, entry) ==
    LET kept == IF file.readable THEN SliceLast(file.entries, HistoryLimit) ELSE <<>>
    IN [readable |-> TRUE,
        entries |-> Append(kept, entry @@ [timestamp |-> "toISOString"])]

-----------------------------------------------------------------------------
(* The inputs: commands and model outputs made of a few tokens, and the     *)
(* texts the specification names.                                           *)

MaxCommandTokens == 3
MaxPartTokens == 2
MaxRawTokens == 4
MaxMainTokens == 2

\* Every concatenation of at most n tokens
RECURSIVE Texts(_, _)
Texts(tokens, n) ==
    IF n = 0 THEN {<<>>}
    ELSE LET shorter == Texts(tokens, n - 1)
         IN shorter \cup {t \o x : t \in tokens, x \in shorter}

Cmd_rm_rf_root == <<"r","m"," ","-","r","f"," ","/">>  \* rm -rf /
Cmd_ls_la == <<"l","s"," ","-","l","a">>  \* ls -la
Cmd_echo_and_rm == <<"e","c","h","o"," ","h","i"," ","&","&"," ","r","m"," ","-","r","f"," ","~">>  \* echo hi && rm -rf ~
Cmd_ls_newline_rm == <<"l","s","\n","r","m"," ","-","r","f"," ","/">>  \* ls\nrm -rf /
Cmd_forkbomb == <<":","(",")","{",":","|",":","&","}",";",":">>  \* :(){:|:&};:
Cmd_forkbomb_spaced == <<":","(",")"," ","{"," ",":","|",":","&"," ","}",";",":">>  \* :() { :|:& };:
Cmd_forkbomb_variant == <<">",":","(",")">>  \* >:()
Cmd_curl_pipe_sh == <<"c","u","r","l"," ","h","t","t","p",":","/","/","x"," ","|"," ","s","h">>  \* curl http://x | sh
Cmd_wget_pipe_bash == <<"w","g","e","t"," ","-","q","O","-"," ","u"," ","|"," ","b","a","s","h"," ","-","c"," ","y">>  \* wget -qO- u | bash -c y
Cmd_echo_quoted_shutdown == <<"e","c","h","o"," ","'","s","h","u","t","d","o","w","n"," ","-","h"," ","n","o","w","'">>  \* echo 'shutdown -h now'
Cmd_sudo_rm == <<"s","u","d","o"," ","r","m"," ","-","r","f"," ","/">>  \* sudo rm -rf /
Cmd_curl_pipe_sh_then_ls == <<"c","u","r","l"," ","x"," ","|"," ","s","h",";","l","s">>  \* curl x | sh;ls

Raw_fenced_bash == <<Backquote,Backquote,Backquote,"b","a","s","h","\n","l","s"," ","-","l","a","\n",Backquote,Backquote,Backquote>>  \* '''bash\nls -la\n'''
Raw_fenced_one_word == <<Backquote,Backquote,Backquote,"l","s",Backquote,Backquote,Backquote>>  \* '''ls'''
Raw_fenced_one_line == <<Backquote,Backquote,Backquote,"l","s"," ","-","l","a",Backquote,Backquote,Backquote>>  \* '''ls -la'''
Raw_fenced_empty == <<Backquote,Backquote,Backquote,"\n",Backquote,Backquote,Backquote>>  \* '''\n'''
Raw_explained_fence == <<"D","e","l","e","t","e","s"," ","t","m","p"," ","f","i","l","e","s","\n",Backquote,Backquote,Backquote,"b","a","s","h","\n","f","i","n","d"," ","."," ","-","n","a","m","e"," ","'","*",".","t","m","p","'"," ","-","d","e","l","e","t","e","\n",Backquote,Backquote,Backquote>>  \* Deletes tmp files\n'''bash\nfind . -name '*.tmp' -delete\n'''
Raw_sure == <<"S","u","r","e",","," ","h","e","r","e"," ","y","o","u"," ","g","o">>  \* Sure, here you go
Raw_cannot_help == <<"I"," ","c","a","n","'","t"," ","h","e","l","p"," ","w","i","t","h"," ","t","h","a","t"," ","r","e","q","u","e","s","t",".">>  \* I can't help with that request.
Raw_rm == <<"r","m"," ","-","r","f"," ","/">>  \* rm -rf /
Raw_prompt_ls == <<"$"," ","l","s">>  \* $ ls

ClassifierTokens == {
    <<"r","m"," ","-","r","f"," ","/">>,
    <<"l","s">>,
    <<" ">>,
    <<"\n">>,
    <<";">>,
    <<"&","&">>,
    <<"|","|">>,
    <<"|">>,
    <<"s","h">>,
    <<"(">>,
    <<"\\">>,
    <<"s","h","u","t","d","o","w","n">>,
    <<"e","c","h","o"," ">>,
    <<"'">>,
    <<"-","c">>,
    <<"R","M">> }

PartTokens == {
    <<"l","s">>,
    <<"s","h">>,
    <<"r","m"," ","-","r","f"," ","/">>,
    <<"e","c","h","o"," ">>,
    <<" ">>,
    <<"s","h","u","t","d","o","w","n">> }

ParserTokens == {
    <<Backquote,Backquote,Backquote>>,
    <<"b","a","s","h">>,
    <<"\n">>,
    <<"l","s">>,
    <<" ">>,
    <<"-","l","a">>,
    <<"'">>,
    <<"S","u","r","e">>,
    <<":">>,
    <<"$"," ">> }

MainTokens == {
    <<"r","m"," ","-","r","f"," ","/">>,
    <<"l","s">>,
    <<" ">>,
    <<"\n">>,
    <<"|"," ","s","h">>,
    <<"S","u","r","e">> }

Answers == {
    <<>>,
    <<"y">>,
    <<"Y">>,
    <<"n">>,
    <<"y","e","s">>,
    <<" ","y"," ">>,
    <<" ">>,
    <<"N">> }

ErrorGeneratingCommand == <<"E","r","r","o","r"," ","g","e","n","e","r","a","t","i","n","g"," ","c","o","m","m","a","n","d">>

NamedCommands == {
    Cmd_rm_rf_root, Cmd_ls_la, Cmd_echo_and_rm, Cmd_ls_newline_rm, Cmd_forkbomb,
    Cmd_forkbomb_spaced, Cmd_forkbomb_variant, Cmd_curl_pipe_sh,
    Cmd_wget_pipe_bash, Cmd_echo_quoted_shutdown, Cmd_sudo_rm,
    Cmd_curl_pipe_sh_then_ls }

NamedRawOutputs == {
    Raw_fenced_bash, Raw_fenced_one_word, Raw_fenced_one_line, Raw_fenced_empty,
    Raw_explained_fence, Raw_sure, Raw_cannot_help, Raw_rm, Raw_prompt_ls }

Commands == NamedCommands \cup Texts(ClassifierTokens, MaxCommandTokens)
Parts == { p \in NamedCommands \cup Texts(PartTokens, MaxPartTokens) : Trim(p) # <<>> }
Separators == { <<";">>, <<"&","&">>, <<"|","|">> }
RawOutputs == NamedRawOutputs \cup Texts(ParserTokens, MaxRawTokens)
MainRawOutputs == NamedRawOutputs \cup NamedCommands \cup Texts(MainTokens, MaxMainTokens)

\* config after lines 653-673: the provider is one of the three, a key is
\* a string or absent ("")
Configs == {
    [provider |-> "local", apiKey |-> "", geminiApiKey |-> ""],
    [provider |-> "openai", apiKey |-> "sk-key", geminiApiKey |-> ""],
    [provider |-> "openai", apiKey |-> "", geminiApiKey |-> ""],
    [provider |-> "gemini", apiKey |-> "", geminiApiKey |-> "key"],
    [provider |-> "gemini", apiKey |-> "sk-key", geminiApiKey |-> ""] }

EarlierEntry ==
    [prompt |-> "earlier task", command |-> Cmd_ls_la, executed |-> TRUE,
     provider |-> "local", timestamp |-> "toISOString"]

HistoryFiles == {
    [readable |-> TRUE, entries |-> <<>>],
    [readable |-> TRUE, entries |-> <<EarlierEntry>>],
    [readable |-> FALSE, entries |-> <<>>] }

\* lines 15, 16 and 23: the module-level state when the process starts
Handle == <<"pipeline">>
EngineInit ==
    /\ localPipeline = Null
    /\ localPipelineStatus = "unloaded"
    /\ lastProgress = 0
    /\ calls = <<>>
    /\ pipelineCalls = 0
    /\ progressLog = <<>>

-----------------------------------------------------------------------------
(* main, from "Command Generation" on (src/bin/ai.js, 849-1040), with the   *)
(* SIGINT handler of lines 643-649.  main runs without interruption between *)
(* its awaits: the provider call, the confirmation prompt, and the callback *)
(* of exec.                                                                 *)

Init ==
    /\ pc = "start"
    /\ config \in Configs
    /\ userPrompt \in {"", "list files"}
    /\ explainMode \in BOOLEAN
    /\ dryRun \in BOOLEAN
    /\ rawModelOutput = <<>>
    /\ command = <<>>
    /\ explanation = Null
    /\ verdict = FALSE
    /\ partVerdicts = <<>>
    /\ confirm = <<>>
    /\ asked = 0
    /\ execLog = <<>>
    /\ shown = FALSE
    /\ history \in HistoryFiles
    /\ operands = <<>>
    /\ configFile = [readable |-> TRUE, content |-> config]
    /\ EngineInit

\* lines 880 and 895
HasCredentials ==
    \/ config.provider = "local"
    \/ (config.provider = "openai" /\ config.apiKey # "")
    \/ (config.provider = "gemini" /\ config.geminiApiKey # "")

\* the fields every saveHistory call of main passes
Entry(cmd, executed) ==
    [prompt |-> userPrompt, command |-> cmd, executed |-> executed,
     provider |-> config.provider]

\* lines 861-865
ShowHelp ==
    /\ pc = "start"
    /\ userPrompt = ""
    /\ pc' = "exit"
    /\ UNCHANGED engineVars
    /\ UNCHANGED <<configFile, config, userPrompt, explainMode, dryRun, rawModelOutput, command,
                   explanation, verdict, partVerdicts, confirm, asked, execLog, shown,
                   history, operands>>

\* lines 880-886 and 895-901
MissingApiKey ==
    /\ pc = "start"
    /\ userPrompt # ""
    /\ ~HasCredentials
    /\ pc' = "exit"
    /\ UNCHANGED engineVars
    /\ UNCHANGED <<configFile, config, userPrompt, explainMode, dryRun, rawModelOutput, command,
                   explanation, verdict, partVerdicts, confirm, asked, execLog, shown,
                   history, operands>>

\* lines 870-909: the provider is called and main awaits it
CallProvider ==
    /\ pc = "start"
    /\ userPrompt # ""
    /\ HasCredentials
    /\ pc' = "generating"
    /\ UNCHANGED engineVars
    /\ UNCHANGED <<configFile, config, userPrompt, explainMode, dryRun, rawModelOutput, command,
                   explanation, verdict, partVerdicts, confirm, asked, execLog, shown,
                   history, operands>>

\* lines 916-927
GenerationFails ==
    /\ pc = "generating"
    /\ history' = saveHistory(history,
                      Entry(ErrorGeneratingCommand, FALSE) @@ [notes |-> "Generation failed"])
    /\ pc' = "exit"
    /\ UNCHANGED engineVars
    /\ UNCHANGED <<configFile, config, userPrompt, explainMode, dryRun, rawModelOutput, command,
                   explanation, verdict, partVerdicts, confirm, asked, execLog, shown,
                   operands>>

\* lines 873-909 and 930-946: the provider returns and its text is parsed
ProviderReturns ==
    /\ pc = "generating"
    /\ \E raw \in MainRawOutputs :
        /\ rawModelOutput' = raw
        /\ command' = parseModelOutput(raw, explainMode).command
        /\ explanation' = parseModelOutput(raw, explainMode).explanation
    /\ pc' = "parsed"
    /\ UNCHANGED engineVars
    /\ UNCHANGED <<configFile, config, userPrompt, explainMode, dryRun, verdict, partVerdicts,
                   confirm, asked, execLog, shown, history, operands>>

\* The extraction-failure branch without its return: the raw output is
\* shown, the entry is saved, and main goes on to the confirmation prompt
ExtractionFailed_noReturn ==
    /\ pc = "parsed"
    /\ Trim(command) = <<>>
    /\ shown' = TRUE
    /\ history' = saveHistory(history,
                      Entry(rawModelOutput, FALSE) @@ [notes |-> "Command extraction failed"])
    /\ asked' = asked + 1
    /\ pc' = "asking"
    /\ UNCHANGED engineVars
    /\ UNCHANGED <<configFile, config, userPrompt, explainMode, dryRun, rawModelOutput, command,
                   explanation, verdict, partVerdicts, confirm, execLog, operands>>

\* lines 948-961
ExtractionFailed ==
    /\ pc = "parsed"
    /\ Trim(command) = <<>>
    /\ shown' = TRUE
    /\ history' = saveHistory(history,
                      Entry(rawModelOutput, FALSE) @@ [notes |-> "Command extraction failed"])
    /\ pc' = "done"
    /\ UNCHANGED engineVars
    /\ UNCHANGED <<configFile, config, userPrompt, explainMode, dryRun, rawModelOutput, command,
                   explanation, verdict, partVerdicts, confirm, asked, execLog, operands>>

\* The dangerous branch without its return: the warning is printed, the entry
\* is saved, and main goes on to the confirmation prompt
DangerousDetected_fallsThrough ==
    /\ pc = "parsed"
    /\ Trim(command) # <<>>
    /\ isDangerous(command)
    /\ verdict' = TRUE
    /\ history' = saveHistory(history,
                      Entry(command, FALSE) @@ [notes |-> "Dangerous command detected"])
    /\ asked' = asked + 1
    /\ pc' = "asking"
    /\ UNCHANGED engineVars
    /\ UNCHANGED <<configFile, config, userPrompt, explainMode, dryRun, rawModelOutput, command,
                   explanation, partVerdicts, confirm, execLog, shown, operands>>

\* lines 963-976
DangerousDetected ==
    /\ pc = "parsed"
    /\ Trim(command) # <<>>
    /\ isDangerous(command)
    /\ verdict' = TRUE
    /\ history' = saveHistory(history,
                      Entry(command, FALSE) @@ [notes |-> "Dangerous command detected"])
    /\ pc' = "done"
    /\ UNCHANGED engineVars
    /\ UNCHANGED <<configFile, config, userPrompt, explainMode, dryRun, rawModelOutput, command,
                   explanation, partVerdicts, confirm, asked, execLog, shown, operands>>

\* lines 963 and 978-982: the confirmation prompt is shown and main awaits it
AskConfirmation ==
    /\ pc = "parsed"
    /\ Trim(command) # <<>>
    /\ ~isDangerous(command)
    /\ verdict' = FALSE
    /\ asked' = asked + 1
    /\ pc' = "asking"
    /\ UNCHANGED engineVars
    /\ UNCHANGED <<configFile, config, userPrompt, explainMode, dryRun, rawModelOutput, command,
                   explanation, partVerdicts, confirm, execLog, shown, history, operands>>

\* shouldRun taking every answer but "n" as a yes
shouldRun_unlessNo(line) == ToLowerCase(Trim(line)) # <<"n">>

\* lines 983-984
shouldRun(line) == Trim(line) = <<>> \/ ToLowerCase(Trim(line)) = <<"y">>

\* lines 986-997
Cancelled ==
    /\ pc = "asking"
    /\ \E line \in Answers :
        /\ ~shouldRun(line)
        /\ confirm' = line
    /\ history' = saveHistory(history,
                      Entry(command, FALSE) @@ [notes |-> "Cancelled by user"])
    /\ pc' = "done"
    /\ UNCHANGED engineVars
    /\ UNCHANGED <<configFile, config, userPrompt, explainMode, dryRun, rawModelOutput, command,
                   explanation, verdict, partVerdicts, asked, execLog, shown, operands>>

\* The dry-run branch without its saveHistory call
DryRunEnds_noEntry ==
    /\ pc = "asking"
    /\ \E line \in Answers :
        /\ shouldRun(line)
        /\ confirm' = line
    /\ dryRun
    /\ pc' = "done"
    /\ UNCHANGED engineVars
    /\ UNCHANGED <<configFile, config, userPrompt, explainMode, dryRun, rawModelOutput, command,
                   explanation, verdict, partVerdicts, asked, execLog, shown, operands,
                   history>>

\* lines 999-1010
DryRunEnds ==
    /\ pc = "asking"
    /\ \E line \in Answers :
        /\ shouldRun(line)
        /\ confirm' = line
    /\ dryRun
    /\ history' = saveHistory(history, Entry(command, FALSE) @@ [notes |-> "Dry run"])
    /\ pc' = "done"
    /\ UNCHANGED engineVars
    /\ UNCHANGED <<configFile, config, userPrompt, explainMode, dryRun, rawModelOutput, command,
                   explanation, verdict, partVerdicts, asked, execLog, shown, operands>>

\* lines 1012-1016: exec(command, callback)
Execute ==
    /\ pc = "asking"
    /\ \E line \in Answers :
        /\ shouldRun(line)
        /\ confirm' = line
    /\ ~dryRun
    /\ execLog' = Append(execLog, command)
    /\ pc' = "executing"
    /\ UNCHANGED engineVars
    /\ UNCHANGED <<configFile, config, userPrompt, explainMode, dryRun, rawModelOutput, command,
                   explanation, verdict, partVerdicts, asked, shown, history, operands>>

\* lines 1017-1025: the callback of exec, with an error
ExecFails ==
    /\ pc = "executing"
    /\ history' = saveHistory(history,
                      Entry(command, FALSE) @@ [notes |-> "Execution failed"])
    /\ pc' = "done"
    /\ UNCHANGED engineVars
    /\ UNCHANGED <<configFile, config, userPrompt, explainMode, dryRun, rawModelOutput, command,
                   explanation, verdict, partVerdicts, confirm, asked, execLog, shown,
                   operands>>

\* lines 1026-1038: the callback of exec, without an error
ExecSucceeds ==
    /\ pc = "executing"
    /\ history' = saveHistory(history, Entry(command, TRUE))
    /\ pc' = "done"
    /\ UNCHANGED engineVars
    /\ UNCHANGED <<configFile, config, userPrompt, explainMode, dryRun, rawModelOutput, command,
                   explanation, verdict, partVerdicts, confirm, asked, execLog, shown,
                   operands>>

\* lines 643-649: Ctrl+C while readline is open and main awaits
Interrupt ==
    /\ pc \in {"generating", "asking"}
    /\ pc' = "interrupted"
    /\ UNCHANGED engineVars
    /\ UNCHANGED <<configFile, config, userPrompt, explainMode, dryRun, rawModelOutput, command,
                   explanation, verdict, partVerdicts, confirm, asked, execLog, shown,
                   history, operands>>

Next ==
    \/ ShowHelp
    \/ MissingApiKey
    \/ CallProvider
    \/ GenerationFails
    \/ ProviderReturns
    \/ ExtractionFailed
    \/ DangerousDetected
    \/ AskConfirmation
    \/ Cancelled
    \/ DryRunEnds
    \/ Execute
    \/ ExecFails
    \/ ExecSucceeds
    \/ Interrupt

Spec == Init /\ [][Next]_vars

-----------------------------------------------------------------------------
(* Drivers of the pure functions: the input is drawn in the initial state   *)
(* and one step applies the function to it.                                 *)

Idle ==
    /\ config = [provider |-> "local", apiKey |-> "", geminiApiKey |-> ""]
    /\ userPrompt = ""
    /\ dryRun = FALSE
    /\ verdict = FALSE
    /\ partVerdicts = <<>>
    /\ confirm = <<>>
    /\ asked = 0
    /\ execLog = <<>>
    /\ shown = FALSE
    /\ history = [readable |-> TRUE, entries |-> <<>>]
    /\ configFile = [readable |-> TRUE, content |-> config]
    /\ EngineInit

\* isDangerous(command)
InitClassifier ==
    /\ pc = "classify"
    /\ command \in Commands
    /\ rawModelOutput = <<>>
    /\ explanation = Null
    /\ explainMode = FALSE
    /\ operands = <<>>
    /\ Idle

Classify ==
    /\ pc = "classify"
    /\ verdict' = isDangerous(command)
    /\ pc' = "classified"
    /\ UNCHANGED engineVars
    /\ UNCHANGED <<configFile, config, userPrompt, explainMode, dryRun, rawModelOutput, command,
                   explanation, partVerdicts, confirm, asked, execLog, shown, history,
                   operands>>

SpecClassifier == InitClassifier /\ [][Classify]_vars

\* isDangerous(c1 + separator + c2), isDangerous(c1), isDangerous(c2)
InitCompose ==
    /\ pc = "compose"
    /\ operands \in Parts \X Separators \X Parts
    /\ command = operands[1] \o operands[2] \o operands[3]
    /\ rawModelOutput = <<>>
    /\ explanation = Null
    /\ explainMode = FALSE
    /\ Idle

ClassifyParts ==
    /\ pc = "compose"
    /\ verdict' = isDangerous(command)
    /\ partVerdicts' = <<isDangerous(operands[1]), isDangerous(operands[3])>>
    /\ pc' = "composed"
    /\ UNCHANGED engineVars
    /\ UNCHANGED <<configFile, config, userPrompt, explainMode, dryRun, rawModelOutput, command,
                   explanation, confirm, asked, execLog, shown, history, operands>>

SpecCompose == InitCompose /\ [][ClassifyParts]_vars

\* parseModelOutput(rawModelOutput, explainMode)
InitParser ==
    /\ pc = "parse"
    /\ rawModelOutput \in RawOutputs
    /\ explainMode \in BOOLEAN
    /\ command = <<>>
    /\ explanation = Null
    /\ operands = <<>>
    /\ Idle

Parse ==
    /\ pc = "parse"
    /\ command' = parseModelOutput(rawModelOutput, explainMode).command
    /\ explanation' = parseModelOutput(rawModelOutput, explainMode).explanation
    /\ pc' = "parseDone"
    /\ UNCHANGED engineVars
    /\ UNCHANGED <<configFile, config, userPrompt, explainMode, dryRun, rawModelOutput, verdict,
                   partVerdicts, confirm, asked, execLog, shown, history, operands>>

SpecParser == InitParser /\ [][Parse]_vars

-----------------------------------------------------------------------------
(* The local engine (src/bin/ai.js, 234-289 and 408-507): the async         *)
(* functions downloadLocalModel and generateCommandLocal over the module-   *)
(* level localPipeline, localPipelineStatus and lastProgress.  A call runs  *)
(* without interruption up to its next await; calls[t].at says which await  *)
(* call t is suspended at, or how it ended.  The callers are main (line     *)
(* 873) for generateCommandLocal and the config step (lines 752-762) for    *)
(* downloadLocalModel; downloadLocalModel is also called on its own.        *)

MaxCalls == 4
MaxTotal == 3
MaxProgressLines == 3

\* process.exit(1) of line 760 ends every call of the process
Running == \A t \in DOMAIN calls : calls[t].at # "exit"

Suspend(t, where) == [calls EXCEPT ![t].at = where]

\* lines 437-443 and 484: with no handle the status becomes loading and
\* pipeline(...) is called, otherwise localPipeline(prompt, ...) is called
AwaitAfterCheck == IF localPipeline = Null THEN "loading" ELSE "inferring"
LoadIfNoHandle ==
    /\ localPipelineStatus' =
           IF localPipeline = Null THEN "loading" ELSE localPipelineStatus
    /\ pipelineCalls' = IF localPipeline = Null THEN pipelineCalls + 1 ELSE pipelineCalls
    /\ UNCHANGED localPipeline

\* generateCommandLocal without the test of lines 414-418: in the error state
\* the call goes on to load the engine again
generateCommandLocal_retries ==
    /\ Running
    /\ UNCHANGED mainVars
    /\ Len(calls) < MaxCalls
    /\ \/ /\ localPipelineStatus = "downloading"
          /\ calls' = Append(calls, [fn |-> "generateCommandLocal", at |-> "waiting"])
          /\ UNCHANGED <<localPipeline, localPipelineStatus, pipelineCalls>>
       \/ /\ localPipelineStatus # "downloading"
          /\ calls' = Append(calls, [fn |-> "generateCommandLocal", at |-> AwaitAfterCheck])
          /\ LoadIfNoHandle
    /\ UNCHANGED <<lastProgress, progressLog>>

\* lines 408-443: generateCommandLocal is called and runs to its first await,
\* or throws at once in the error state
generateCommandLocal ==
    /\ Running
    /\ UNCHANGED mainVars
    /\ Len(calls) < MaxCalls
    /\ \/ /\ localPipelineStatus = "error"
          /\ calls' = Append(calls, [fn |-> "generateCommandLocal", at |-> "errorState"])
          /\ UNCHANGED <<localPipeline, localPipelineStatus, pipelineCalls>>
       \/ /\ localPipelineStatus = "downloading"
          /\ calls' = Append(calls, [fn |-> "generateCommandLocal", at |-> "waiting"])
          /\ UNCHANGED <<localPipeline, localPipelineStatus, pipelineCalls>>
       \/ /\ localPipelineStatus \notin {"error", "downloading"}
          /\ calls' = Append(calls, [fn |-> "generateCommandLocal", at |-> AwaitAfterCheck])
          /\ LoadIfNoHandle
    /\ UNCHANGED <<lastProgress, progressLog>>

\* The wait loop without the test of lines 426-428: after a failed download
\* the call goes on to load the engine
PollDownload_retries(t) ==
    /\ Running
    /\ UNCHANGED mainVars
    /\ calls[t].at = "waiting"
    /\ \/ /\ localPipelineStatus = "downloading"
          /\ UNCHANGED <<calls, localPipeline, localPipelineStatus, pipelineCalls>>
       \/ /\ localPipelineStatus # "downloading"
          /\ calls' = Suspend(t, AwaitAfterCheck)
          /\ LoadIfNoHandle
    /\ UNCHANGED <<lastProgress, progressLog>>

\* The wait loop that ends on a failed download only: while the status is
\* not error the call keeps waiting
PollDownload_untilError(t) ==
    /\ Running
    /\ UNCHANGED mainVars
    /\ calls[t].at = "waiting"
    /\ \/ /\ localPipelineStatus # "error"
          /\ UNCHANGED <<calls, localPipeline, localPipelineStatus, pipelineCalls>>
       \/ /\ localPipelineStatus = "error"
          /\ calls' = Suspend(t, "downloadFailedDuringWait")
          /\ UNCHANGED <<localPipeline, localPipelineStatus, pipelineCalls>>
    /\ UNCHANGED <<lastProgress, progressLog>>

\* lines 422-435: the timer of the wait loop fires
PollDownload(t) ==
    /\ Running
    /\ UNCHANGED mainVars
    /\ calls[t].at = "waiting"
    /\ \/ /\ localPipelineStatus = "downloading"
          /\ UNCHANGED <<calls, localPipeline, localPipelineStatus, pipelineCalls>>
       \/ /\ localPipelineStatus = "error"
          /\ calls' = Suspend(t, "downloadFailedDuringWait")
          /\ UNCHANGED <<localPipeline, localPipelineStatus, pipelineCalls>>
       \/ /\ localPipelineStatus \notin {"error", "downloading"}
          /\ calls' = Suspend(t, AwaitAfterCheck)
          /\ LoadIfNoHandle
    /\ UNCHANGED <<lastProgress, progressLog>>

\* lines 443-452 and 484: pipeline(...) resolves, the handle is stored and
\* the inference is started
LoadSucceeds(t) ==
    /\ Running
    /\ UNCHANGED mainVars
    /\ calls[t].at = "loading"
    /\ localPipeline' = Handle
    /\ localPipelineStatus' = "loaded"
    /\ calls' = Suspend(t, "inferring")
    /\ UNCHANGED <<pipelineCalls, lastProgress, progressLog>>

\* lines 453-458
LoadFails(t) ==
    /\ Running
    /\ UNCHANGED mainVars
    /\ calls[t].at = "loading"
    /\ localPipeline' = Null
    /\ localPipelineStatus' = "error"
    /\ calls' = Suspend(t, "loadFailed")
    /\ UNCHANGED <<pipelineCalls, lastProgress, progressLog>>

\* lines 484-494
InferenceSucceeds(t) ==
    /\ Running
    /\ UNCHANGED mainVars
    /\ calls[t].at = "inferring"
    /\ calls' = Suspend(t, "returned")
    /\ UNCHANGED <<localPipeline, localPipelineStatus, pipelineCalls, lastProgress,
                   progressLog>>

\* lines 495-506: the message names the model files or it does not
InferenceFails(t) ==
    /\ Running
    /\ UNCHANGED mainVars
    /\ calls[t].at = "inferring"
    /\ \E modelFiles \in BOOLEAN :
        /\ localPipelineStatus' = IF modelFiles THEN "error" ELSE localPipelineStatus
        /\ localPipeline' = IF modelFiles THEN Null ELSE localPipeline
    /\ calls' = Suspend(t, "inferenceFailed")
    /\ UNCHANGED <<pipelineCalls, lastProgress, progressLog>>

\* lines 257-280: downloadLocalModel is called, by the config step or on its
\* own; it returns at once or calls pipeline(...) and awaits it.  After a
\* return the config step resets the handle (line 756).
downloadLocalModel ==
    /\ Running
    /\ UNCHANGED mainVars
    /\ Len(calls) < MaxCalls
    /\ \E fn \in {"downloadLocalModel", "config"} :
        \/ /\ localPipelineStatus \in {"loaded", "loading", "downloading"}
           /\ calls' = Append(calls, [fn |-> fn, at |-> "returned"])
           /\ localPipeline' = IF fn = "config" THEN Null ELSE localPipeline
           /\ UNCHANGED <<localPipelineStatus, pipelineCalls>>
        \/ /\ localPipelineStatus \notin {"loaded", "loading", "downloading"}
           /\ calls' = Append(calls, [fn |-> fn, at |-> "downloading"])
           /\ localPipelineStatus' = "downloading"
           /\ pipelineCalls' = pipelineCalls + 1
           /\ UNCHANGED localPipeline
    /\ UNCHANGED <<lastProgress, progressLog>>

\* lines 270-280 (and 756 for the config step)
DownloadSucceeds(t) ==
    /\ Running
    /\ UNCHANGED mainVars
    /\ calls[t].at = "downloading"
    /\ localPipelineStatus' = "unloaded"
    /\ localPipeline' = IF calls[t].fn = "config" THEN Null ELSE localPipeline
    /\ calls' = Suspend(t, "returned")
    /\ UNCHANGED <<pipelineCalls, lastProgress, progressLog>>

\* lines 281-288 (and 757-761 for the config step, which exits the process)
DownloadFails(t) ==
    /\ Running
    /\ UNCHANGED mainVars
    /\ calls[t].at = "downloading"
    /\ localPipelineStatus' = "error"
    /\ calls' = Suspend(t, IF calls[t].fn = "config" THEN "exit" ELSE "downloadFailed")
    /\ UNCHANGED <<localPipeline, pipelineCalls, lastProgress, progressLog>>

\* Math.round((progress / total) * 100) for 0 <= progress and 0 < total
Percentage(progress, total) == (200 * progress + total) \div (2 * total)

\* the event objects pipeline(...) passes to progress_callback: a file name
\* or none ("undefined"), with progress and total or without them
Files == {"undefined", "model.onnx"}
ProgressEvents ==
    [file : Files]
    \cup { e \in [file : Files, progress : 0..MaxTotal, total : 1..MaxTotal] :
              e.progress <= e.total }

\* lines 234-254, for one event
downloadProgressCallback(e) ==
    IF "progress" \in DOMAIN e /\ "total" \in DOMAIN e
    THEN LET percentage == Percentage(e.progress, e.total)
             emits == percentage > lastProgress \/ percentage = 0 \/ percentage = 100
             fileName == IF e.file # "undefined" THEN e.file ELSE "Model file"
             after == IF emits THEN percentage ELSE lastProgress
         IN /\ progressLog' = IF emits
                                THEN Append(progressLog,
                                         [file |-> fileName, percentage |-> percentage])
                                ELSE progressLog
            /\ lastProgress' = IF percentage = 100 /\ after = 100 THEN 0 ELSE after
    ELSE /\ progressLog' = IF e.file # "undefined"
                             THEN Append(progressLog, [file |-> e.file])
                             ELSE progressLog
         /\ UNCHANGED lastProgress

\* pipeline(...) reports progress while a download or a load is in flight
ProgressEvent ==
    /\ Running
    /\ UNCHANGED mainVars
    /\ \E t \in DOMAIN calls : calls[t].at \in {"downloading", "loading"}
    /\ Len(progressLog) < MaxProgressLines
    /\ \E e \in ProgressEvents : downloadProgressCallback(e)
    /\ UNCHANGED <<localPipeline, localPipelineStatus, calls, pipelineCalls>>

InitEngine ==
    /\ pc = "engine"
    /\ explainMode = FALSE
    /\ rawModelOutput = <<>>
    /\ command = <<>>
    /\ explanation = Null
    /\ operands = <<>>
    /\ Idle

\* any interleaving of calls of the two functions and of their completions
NextEngine ==
    \/ generateCommandLocal
    \/ downloadLocalModel
    \/ \E t \in DOMAIN calls : PollDownload(t)
    \/ \E t \in DOMAIN calls : LoadSucceeds(t)
    \/ \E t \in DOMAIN calls : LoadFails(t)
    \/ \E t \in DOMAIN calls : InferenceSucceeds(t)
    \/ \E t \in DOMAIN calls : InferenceFails(t)
    \/ \E t \in DOMAIN calls : DownloadSucceeds(t)
    \/ \E t \in DOMAIN calls : DownloadFails(t)

SpecEngine == InitEngine /\ [][NextEngine]_vars

\* The runtime's part: the event loop fires the timer of every waiting call
\* (setTimeout, line 423), and every pipeline(...) promise that is awaited
\* settles, resolved or rejected (lines 272-288 and 443-458).
TimerFires(t) == WF_vars(t \in DOMAIN calls /\ PollDownload(t))
DownloadSettles(t) ==
    WF_vars(t \in DOMAIN calls /\ (DownloadSucceeds(t) \/ DownloadFails(t)))
LoadSettles(t) ==
    WF_vars(t \in DOMAIN calls /\ (LoadSucceeds(t) \/ LoadFails(t)))

SpecEngineFair ==
    /\ SpecEngine
    /\ \A t \in 1..MaxCalls : TimerFires(t) /\ DownloadSettles(t) /\ LoadSettles(t)

\* one call, of either function, and the progress events of its download or
\* load
NextProgress ==
    \/ (calls = <<>> /\ generateCommandLocal)
    \/ (calls = <<>> /\ downloadLocalModel)
    \/ ProgressEvent
    \/ \E t \in DOMAIN calls : LoadSucceeds(t)
    \/ \E t \in DOMAIN calls : LoadFails(t)
    \/ \E t \in DOMAIN calls : InferenceSucceeds(t)
    \/ \E t \in DOMAIN calls : InferenceFails(t)
    \/ \E t \in DOMAIN calls : DownloadSucceeds(t)
    \/ \E t \in DOMAIN calls : DownloadFails(t)

SpecProgress == InitEngine /\ [][NextProgress]_vars

-----------------------------------------------------------------------------
(* Properties.                                                              *)

Entries == history.entries
LastEntry == Entries[Len(Entries)]
NoteOf(e) == IF "notes" \in DOMAIN e THEN e.notes ELSE ""

\* A command was extracted from the model output
Extracted ==
    /\ pc \in {"parsed", "asking", "executing", "done", "exit", "interrupted"}
    /\ Trim(command) # <<>>

LineFlagged(line) ==
    LET subs == Subcommands(Normalize(line))
    IN \E k \in DOMAIN subs : StartsWithBlacklisted(subs[k])

\* C2: a newline separates statements as ";" does: when one line of a
\* multi-line command is flagged by the prefix catalogue on its own, the
\* whole command is dangerous.
C2_NewlineSeparatesStatements ==
    pc = "classified" =>
        LET lines == SplitLines(command)
        IN (Len(lines) > 1 /\ \E i \in DOMAIN lines : LineFlagged(lines[i])) => verdict = TRUE

\* The segments as the specification describes them: lowercase, whitespace
\* collapsed, split on the separators, trimmed, the empty ones dropped
SpecSegments(cmd) == TrimAndDropEmpty(SplitSubcommands(CollapseWhitespace(ToLowerCase(cmd))))

\* C3: when a segment starts with a prefix of the catalogue the command is
\* dangerous; so are "rm -rf /" and "echo hi && rm -rf ~".
C3_SegmentPrefixIsDangerous ==
    pc = "classified" =>
        /\ (\E k \in DOMAIN SpecSegments(command) :
                StartsWithBlacklisted(SpecSegments(command)[k])) => verdict = TRUE
        /\ command \in {Cmd_rm_rf_root, Cmd_echo_and_rm} => verdict = TRUE

C3_Witness ==
    /\ pc = "classified"
    /\ command = Cmd_echo_and_rm
    /\ Len(SpecSegments(command)) = 2
    /\ ~StartsWithBlacklisted(SpecSegments(command)[1])
    /\ StartsWithBlacklisted(SpecSegments(command)[2])
    /\ verdict = TRUE

\* C4: the fork-bomb signatures of the catalogue are detected, ":(){:|:&};:"
\* with or without spaces and a command that starts with ">:()".
C4_ForkBombDetected ==
    (/\ pc = "classified"
     /\ \/ command \in {Cmd_forkbomb, Cmd_forkbomb_spaced}
        \/ StartsWith(command, Cmd_forkbomb_variant)) => verdict = TRUE

\* The confirmation was answered with exactly nothing or exactly "y", in
\* either case
AnsweredYes(line) == line \in {<<>>, <<"y">>, <<"Y">>}

PipesIntoInterpreter(s) ==
    \E i \in 1..Len(s) : \E name \in Interpreters :
        LET j == i + 1 + WsRunLen(s, i + 1)
            m == j + Len(name)
        IN /\ s[i] = "|"
           /\ StartsWithAt(s, j, name)
           /\ \/ m = Len(s) + 1
              \/ (m <= Len(s) /\ IsWs(s[m]))
              \/ StartsWithAt(s, m, <<"-","c">>)

\* C6: a command whose normalized text pipes into an interpreter is
\* dangerous whatever its segments start with.
C6_PipeToInterpreterIsDangerous ==
    pc = "classified" =>
        /\ PipesIntoInterpreter(Normalize(command)) => verdict = TRUE
        /\ command \in {Cmd_curl_pipe_sh, Cmd_wget_pipe_bash} => verdict = TRUE

C6_Witness ==
    /\ pc = "classified"
    /\ command = Cmd_curl_pipe_sh
    /\ PipesIntoInterpreter(Normalize(command))
    /\ ~LineFlagged(command)
    /\ verdict = TRUE

\* A token of the catalogue occurs in the command, but no subcommand starts
\* with one and nothing is piped into an interpreter
TokenOnlyInside(cmd) ==
    /\ \E p \in DOMAIN blackListPatterns : Includes(Normalize(cmd), blackListPatterns[p])
    /\ ~LineFlagged(cmd)
    /\ ~PipesIntoInterpreter(Normalize(cmd))

\* C7: matching is by prefix of a sub-statement: a command that holds a
\* catalogue token only inside a sub-statement, and no pipe into an
\* interpreter, is not dangerous.
C7_TokenInsideIsNotDangerous ==
    pc = "classified" =>
        /\ TokenOnlyInside(command) => verdict = FALSE
        /\ command \in {Cmd_echo_quoted_shutdown, Cmd_sudo_rm, Cmd_ls_la} => verdict = FALSE

C7_Witness ==
    /\ pc = "classified"
    /\ command = Cmd_echo_quoted_shutdown
    /\ TokenOnlyInside(command)
    /\ verdict = FALSE

\* C8: classification is compositional over ";", "&&" and "||":
\* isDangerous(c1 s c2) = isDangerous(c1) \/ isDangerous(c2).
C8_Compositional ==
    pc = "composed" => (verdict = (partVerdicts[1] \/ partVerdicts[2]))

\* The first fenced block of a text: the first fence, and the first fence
\* after it
FencePositions(s) == {i \in 1..Len(s) : StartsWithAt(s, i, Fence)}
OpeningFence(s) == CHOOSE i \in FencePositions(s) : \A j \in FencePositions(s) : i <= j
ClosingFences(s) == {i \in FencePositions(s) : i >= OpeningFence(s) + 3}
ClosingFence(s) == CHOOSE i \in ClosingFences(s) : \A j \in ClosingFences(s) : i <= j
HasFencedBlock(s) == FencePositions(s) # {} /\ ClosingFences(s) # {}
FencedInner(s) == Slice(s, OpeningFence(s) + 3, ClosingFence(s) - 1)

\* The content of the block, trimmed and without quote padding, with the
\* word after the opening fence read either as content or as language tag
FencedContents(s) ==
    LET inner == FencedInner(s)
        untagged == Slice(inner, WordRunLen(inner, 1) + 1, Len(inner))
    IN {StripPadding(Trim(inner)), StripPadding(Trim(untagged))}

\* C9: for a text with a fenced block (here: one that holds more than
\* padding) the command is the trimmed content of the first block, never text
\* from outside it nor the fence markers.
C9_FencedContentReturned ==
    (/\ pc = "parseDone"
     /\ HasFencedBlock(rawModelOutput)
     /\ StripPadding(FencedInner(rawModelOutput)) # <<>>) =>
        command \in FencedContents(rawModelOutput) \ {<<>>}

\* No line of the text is non-empty, matches the command-start pattern and
\* does not match the conversational-opener pattern
NoQualifyingLine(s) ==
    \A i \in DOMAIN SplitLines(s) :
        LET line == Trim(SplitLines(s)[i])
        IN \/ line = <<>>
           \/ ~CommandStart(line)
           \/ ConversationalStart(ToLowerCase(line))

\* C10: for a text without a fenced block and without a qualifying line
\* parsing fails: no command reaches the caller, the text is not offered for
\* execution, and the invocation ends as an extraction failure.
C10_NoCommandFound ==
    (/\ pc \in {"parsed", "asking", "executing", "done"}
     /\ ~HasFencedBlock(rawModelOutput)
     /\ NoQualifyingLine(rawModelOutput)) =>
        /\ asked = 0
        /\ execLog = <<>>
        /\ pc = "done" => NoteOf(LastEntry) = "Command extraction failed"

\* C11: for the text "I can't help with that request.", in either mode, the
\* parser does not return that sentence as the command.
C11_RefusalIsNotACommand ==
    (pc = "parseDone" /\ rawModelOutput = Raw_cannot_help) =>
        command # Raw_cannot_help

\* C12: on every path the command returned after all cleanup does not match
\* the conversational-opener pattern.
C12_CommandIsNotConversational ==
    pc = "parseDone" => ~ConversationalStart(ToLowerCase(command))

\* The history file holds what some earlier file held and the one entry e
\* saved after it
OneEntrySaved(e) == \E f \in HistoryFiles : history = saveHistory(f, e)

C14_ReparseKeepsCommand ==
    pc = "parseDone" =>
        parseModelOutput(command, explainMode).command = command

\* C15: the returned explanation is non-null only in explain mode and then it
\* is not empty; without explain mode it is null on the fenced-block path and
\* on the line-scan path.
C15_ExplanationOnlyInExplainMode ==
    pc = "parseDone" =>
        (explanation # Null => (explainMode /\ Trim(explanation) # <<>>))

\* The call that the step just taken added
NewCall == calls'[Len(calls')]

\* C16: in the error state every inference request fails at once with the
\* error-state failure, starts no pipeline construction and leaves the status
\* and the handle as they are.
C16_ErrorRejectsRequests ==
    [][(generateCommandLocal /\ localPipelineStatus = "error") =>
          /\ NewCall = [fn |-> "generateCommandLocal", at |-> "errorState"]
          /\ UNCHANGED <<localPipelineStatus, localPipeline, pipelineCalls>>
          /\ \A t \in DOMAIN calls : calls'[t] = calls[t]]_vars

C16_Witness ==
    /\ localPipelineStatus = "error"
    /\ localPipeline = Null
    /\ Len(calls) >= 3
    /\ calls[Len(calls) - 1] = [fn |-> "generateCommandLocal", at |-> "errorState"]
    /\ calls[Len(calls)] = [fn |-> "generateCommandLocal", at |-> "errorState"]

\* C17 as stated, for a download followed by a request as the first two
\* calls: when the download has failed, the request, which was made while
\* the download was in flight (and waited for it) or after its failure, does
\* not go on to load or infer: it waits, or it has failed with the "download
\* failed during wait" failure or the error-state failure.
C17_FailedDownloadFailsWaiter ==
    (/\ Len(calls) >= 2
     /\ calls[1] = [fn |-> "downloadLocalModel", at |-> "downloadFailed"]
     /\ calls[2].fn = "generateCommandLocal") =>
        calls[2].at \in {"waiting", "downloadFailedDuringWait", "errorState"}

\* C17 amended: a request made while the engine is downloading starts no
\* download and no construction and waits; a poll that finds the engine still
\* downloading changes nothing, and a poll that finds the error state ends the
\* request as the "download failed during wait" failure, without a load.
C17_WaiterObservesStatus ==
    [][/\ (generateCommandLocal /\ localPipelineStatus = "downloading") =>
            /\ NewCall = [fn |-> "generateCommandLocal", at |-> "waiting"]
            /\ UNCHANGED <<localPipelineStatus, localPipeline, pipelineCalls>>
       /\ \A t \in DOMAIN calls :
            (calls[t].at = "waiting" /\ calls'[t] # calls[t]) =>
                /\ localPipelineStatus # "downloading"
                /\ localPipelineStatus = "error" =>
                    /\ calls'[t].at = "downloadFailedDuringWait"
                    /\ UNCHANGED <<localPipelineStatus, localPipeline, pipelineCalls>>
       /\ (localPipelineStatus = "downloading" /\ localPipelineStatus' = "downloading") =>
            UNCHANGED pipelineCalls]_vars

C17_Witness ==
    \E t \in DOMAIN calls : \E d \in DOMAIN calls :
        /\ d < t
        /\ calls[d] = [fn |-> "downloadLocalModel", at |-> "downloadFailed"]
        /\ calls[t] = [fn |-> "generateCommandLocal", at |-> "downloadFailedDuringWait"]
        /\ localPipelineStatus = "error"
        /\ pipelineCalls = 1

\* The calls whose download is in flight
Downloading == {t \in DOMAIN calls : calls[t].at = "downloading"}

\* C18: under any interleaving of downloadLocalModel and generateCommandLocal
\* calls at most one download is in flight at a time.
C18_AtMostOneDownload == Cardinality(Downloading) <= 1

\* C19: a successful load ends in the loaded state, a failed download or
\* load ends in the error state, and the error state is left only by an
\* explicit reconfiguration (a downloadLocalModel call): no inference request
\* and no completion of an operation in flight changes it.
C19_LifecycleAndStickyError ==
    [][/\ (\E t \in DOMAIN calls : LoadSucceeds(t)) => localPipelineStatus' = "loaded"
       /\ (\E t \in DOMAIN calls : LoadFails(t) \/ DownloadFails(t)) =>
              localPipelineStatus' = "error"
       /\ (localPipelineStatus = "error" /\ ~downloadLocalModel) =>
              localPipelineStatus' = "error"]_vars

\* The percentages written, in the order they were written
PercentLines == SelectSeq(progressLog, LAMBDA e : "percentage" \in DOMAIN e)

\* C20: during one download or load the percentages written are within
\* 0..100 and never decrease, no value is written twice, and the final value
\* 100 is not written more than once.
C20_ProgressMonotoneOnce ==
    /\ \A i \in DOMAIN PercentLines : PercentLines[i].percentage \in 0..100
    /\ \A i, j \in DOMAIN PercentLines :
          i < j => PercentLines[i].percentage < PercentLines[j].percentage
    /\ Cardinality({i \in DOMAIN PercentLines : PercentLines[i].percentage = 100}) <= 1

\* The invocation reached command generation, and it has ended
ReachedGeneration == userPrompt # "" /\ HasCredentials
OwnEntries == {i \in DOMAIN Entries : Entries[i].prompt = userPrompt}

\* What an ended invocation left in the history: one entry of its own, the
\* last one, with executed = true only after exec ran without an error
OneOwnEntry ==
    /\ Cardinality(OwnEntries) = 1
    /\ Entries # <<>>
    /\ LastEntry.prompt = userPrompt
    /\ LastEntry.executed => (execLog = <<command>> /\ NoteOf(LastEntry) = "")

ListedTransitions ==
    { <<"unloaded", "downloading">>, <<"error", "downloading">>,
      <<"downloading", "unloaded">>, <<"downloading", "error">>,
      <<"unloaded", "loading">>, <<"loading", "loaded">>, <<"loading", "error">> }

\* C22: every change of the engine state is one of the listed transitions; in
\* particular the loaded state is never left and loading is entered from
\* unloaded only.
C22_OnlyListedTransitions ==
    [][localPipelineStatus' # localPipelineStatus =>
          <<localPipelineStatus, localPipelineStatus'>> \in ListedTransitions]_vars


\* The calls whose pipeline(...) construction (download or load) is in flight
Constructing == {t \in DOMAIN calls : calls[t].at \in {"downloading", "loading"}}

\* C23: at any time at most one engine construction is in flight; two
\* generateCommandLocal calls never both construct the engine.
C23_OneConstructionInFlight == Cardinality(Constructing) <= 1


-----------------------------------------------------------------------------
(* saveHistory applied repeatedly to a history file that is empty, short,   *)
(* at the limit, or unreadable.                                             *)

MaxSaves == 3

\* an entry an earlier invocation stored; neighbours differ in executed
StoredEntry(i) ==
    [prompt |-> "earlier task", command |-> Cmd_ls_la, executed |-> (i % 2 = 1),
     provider |-> "local", timestamp |-> "toISOString"]

StoredLengths == {0, 1, HistoryLimit - 1, HistoryLimit, HistoryLimit + 1}

LongHistoryFiles ==
    { [readable |-> TRUE, entries |-> [i \in 1..n |-> StoredEntry(i)]] : n \in StoredLengths }
    \cup { [readable |-> FALSE, entries |-> <<>>] }

NewEntries ==
    { [prompt |-> "list files", command |-> <<"l","s">>, executed |-> x, provider |-> "local"] :
        x \in BOOLEAN }

InitHistory ==
    /\ pc = "history"
    /\ config = [provider |-> "local", apiKey |-> "", geminiApiKey |-> ""]
    /\ userPrompt = "list files"
    /\ explainMode = FALSE
    /\ dryRun = FALSE
    /\ rawModelOutput = <<>>
    /\ command = <<"l","s">>
    /\ explanation = Null
    /\ verdict = FALSE
    /\ partVerdicts = <<>>
    /\ confirm = <<>>
    /\ asked = 0
    /\ execLog = <<>>
    /\ shown = FALSE
    /\ operands = <<>>
    /\ history \in LongHistoryFiles
    /\ configFile = [readable |-> TRUE, content |-> config]
    /\ EngineInit

\* saveHistory(entry); operands keeps the entries passed so far, and
\* writeFileSync either stores the new contents or throws and leaves the file
SaveHistory ==
    /\ pc \in {"history", "saved", "writeFailed"}
    /\ Len(operands) < MaxSaves
    /\ \E entry \in NewEntries, written \in BOOLEAN :
        /\ operands' = Append(operands, entry)
        /\ history' = IF written THEN saveHistory(history, entry) ELSE history
        /\ pc' = IF written THEN "saved" ELSE "writeFailed"
    /\ UNCHANGED engineVars
    /\ UNCHANGED <<configFile, config, userPrompt, explainMode, dryRun, rawModelOutput, command,
                   explanation, verdict, partVerdicts, confirm, asked, execLog, shown>>

SpecHistory == InitHistory /\ [][SaveHistory]_vars

\* C24: after a saveHistory call that wrote the file, the stored history
\* holds at most 1000 entries and the newly saved entry is the last one.
C24_HistoryBounded ==
    pc = "saved" =>
        /\ Len(Entries) <= HistoryLimit
        /\ LastEntry = operands[Len(operands)] @@ [timestamp |-> "toISOString"]


\* Call t waits in the loop of lines 422-424
Waiting(t) == t \in DOMAIN calls /\ calls[t].at = "waiting"

\* Call t has left the wait loop and failed on the error state, or has gone
\* through the load check and its load, if it made one, has ended
Settled(t) ==
    /\ t \in DOMAIN calls
    /\ calls[t].at \in {"downloadFailedDuringWait", "loadFailed", "inferring",
                       "returned", "inferenceFailed"}

C26_LoadedIffHandle == (localPipelineStatus = "loaded") <=> (localPipeline # Null)


-----------------------------------------------------------------------------
(* The config subcommand: the provider question, the key question of the    *)
(* hosted providers or the model download of the local one, and the write   *)
(* of ~/.ai-config.json.  A configuration object has the fields it has;     *)
(* its strings are sequences of characters.                                 *)

MinKeyLength == 30

P_local == <<"l","o","c","a","l">>
P_openai == <<"o","p","e","n","a","i">>
P_gemini == <<"g","e","m","i","n","i">>
P_azure == <<"a","z","u","r","e">>
ValidProviders == {P_local, P_openai, P_gemini}

Repeat(c, n) == [i \in 1..n |-> c]
OpenAIKey == <<"s","k","-">> \o Repeat("x", MinKeyLength - 3)
GeminiKey == Repeat("g", MinKeyLength)

\* what ~/.ai-config.json can hold before the run: nothing readable, or an
\* object with any of the three fields; a key field may be the empty string
PriorObjects ==
    { o \in UNION { [D -> {P_local, P_openai, P_gemini, P_azure, <<>>, OpenAIKey, GeminiKey}] :
                      D \in SUBSET {"provider", "apiKey", "geminiApiKey"} } :
        /\ "provider" \in DOMAIN o => o["provider"] \in {P_local, P_openai, P_gemini, P_azure}
        /\ "apiKey" \in DOMAIN o => o["apiKey"] \in {<<>>, OpenAIKey}
        /\ "geminiApiKey" \in DOMAIN o => o["geminiApiKey"] \in {<<>>, GeminiKey} }

PriorConfigFiles ==
    { [readable |-> TRUE, content |-> o] : o \in PriorObjects }
    \cup { [readable |-> FALSE, content |-> <<>>] }

\* the lines typed at the provider question and at the key questions
ProviderAnswers ==
    { <<>>, P_local, <<" ","O","p","e","n","A","I"," ">>, P_openai, P_gemini, P_azure }
KeyAnswers ==
    { <<>>, OpenAIKey, <<" ">> \o OpenAIKey \o <<" ">>,
      <<"s","k","-">> \o Repeat("x", MinKeyLength - 4),
      GeminiKey, Repeat("g", MinKeyLength - 1) }

\* if (config[f]) ...: the field is there and is not the empty string
Truthy(obj, f) == f \in DOMAIN obj /\ obj[f] # <<>>
SetField(obj, f, v) == [k \in DOMAIN obj \cup {f} |-> IF k = f THEN v ELSE obj[k]]
DeleteField(obj, f) == [k \in DOMAIN obj \ {f} |-> obj[k]]

\* a configuration step that removes no key
DeleteIfTruthy_keeps(obj, f) == obj

\* if (config[f]) delete config[f]
DeleteIfTruthy(obj, f) == IF Truthy(obj, f) THEN DeleteField(obj, f) ELSE obj

\* lines 653-673: the defaults, overridden by the file when it parses, and
\* the fallback to local for a provider that is not one of the three
loadConfig(file) ==
    LET defaults == [k \in {"provider"} |-> P_local]
        merged == IF file.readable THEN file.content @@ defaults ELSE defaults
    IN IF merged["provider"] \in ValidProviders
       THEN merged
       ELSE SetField(merged, "provider", P_local)

InitConfig ==
    /\ pc = "config"
    /\ configFile \in PriorConfigFiles
    /\ config = loadConfig(configFile)
    /\ userPrompt = ""
    /\ explainMode = FALSE
    /\ dryRun = FALSE
    /\ rawModelOutput = <<>>
    /\ command = <<>>
    /\ explanation = Null
    /\ verdict = FALSE
    /\ partVerdicts = <<>>
    /\ confirm = <<>>
    /\ asked = 0
    /\ execLog = <<>>
    /\ shown = FALSE
    /\ operands = <<>>
    /\ history = [readable |-> TRUE, entries |-> <<>>]
    /\ EngineInit

\* lines 764-783: writeFileSync stores the object, or throws and the process
\* exits with 1
writeConfig(cfg) ==
    \E written \in BOOLEAN :
        /\ config' = cfg
        /\ configFile' = IF written THEN [readable |-> TRUE, content |-> cfg] ELSE configFile
        /\ pc' = IF written THEN "saved" ELSE "exit"

\* lines 675-722 and 747-755: the answer to the provider question; an invalid
\* name exits, openai and gemini go on to their key question, and local
\* calls downloadLocalModel, which in a process that has just started
\* (status unloaded) starts the download
ChooseProvider ==
    /\ pc = "config"
    /\ \E answer \in ProviderAnswers :
        LET typed == ToLowerCase(Trim(answer))
            selectedProvider == IF typed = <<>> THEN P_local ELSE typed
            chosen == SetField(config, "provider", selectedProvider)
        IN IF selectedProvider \notin ValidProviders
           THEN /\ pc' = "exit"
                /\ UNCHANGED <<config, calls, localPipelineStatus, pipelineCalls>>
           ELSE IF selectedProvider = P_openai
           THEN /\ config' = DeleteIfTruthy(chosen, "geminiApiKey")
                /\ pc' = "askOpenAIKey"
                /\ UNCHANGED <<calls, localPipelineStatus, pipelineCalls>>
           ELSE IF selectedProvider = P_gemini
           THEN /\ config' = DeleteIfTruthy(chosen, "apiKey")
                /\ pc' = "askGeminiKey"
                /\ UNCHANGED <<calls, localPipelineStatus, pipelineCalls>>
           ELSE /\ config' = DeleteIfTruthy(DeleteIfTruthy(chosen, "apiKey"), "geminiApiKey")
                /\ pc' = "localSetup"
                /\ calls' = Append(calls, [fn |-> "config", at |-> "downloading"])
                /\ localPipelineStatus' = "downloading"
                /\ pipelineCalls' = pipelineCalls + 1
    /\ UNCHANGED <<configFile, userPrompt, explainMode, dryRun, rawModelOutput, command,
                   explanation, verdict, confirm, asked, execLog, shown, history,
                   operands, partVerdicts, localPipeline, lastProgress, progressLog>>

\* lines 708-719, 747-750 and 764-783: the answer to the OpenAI key question
EnterOpenAIKey ==
    /\ pc = "askOpenAIKey"
    /\ \E key \in KeyAnswers :
        LET trimmed == Trim(key)
        IN IF ~StartsWith(trimmed, <<"s","k","-">>) \/ Len(trimmed) < MinKeyLength
           THEN pc' = "exit" /\ UNCHANGED <<config, configFile>>
           ELSE writeConfig(DeleteIfTruthy(SetField(config, "apiKey", trimmed),
                                           "geminiApiKey"))
    /\ UNCHANGED engineVars
    /\ UNCHANGED <<userPrompt, explainMode, dryRun, rawModelOutput, command,
                   explanation, verdict, confirm, asked, execLog, shown, history,
                   operands, partVerdicts>>

\* lines 735-746 and 764-783: the answer to the Gemini key question
EnterGeminiKey ==
    /\ pc = "askGeminiKey"
    /\ \E key \in KeyAnswers :
        LET trimmed == Trim(key)
        IN IF Len(trimmed) < MinKeyLength
           THEN pc' = "exit" /\ UNCHANGED <<config, configFile>>
           ELSE writeConfig(SetField(config, "geminiApiKey", trimmed))
    /\ UNCHANGED engineVars
    /\ UNCHANGED <<userPrompt, explainMode, dryRun, rawModelOutput, command,
                   explanation, verdict, confirm, asked, execLog, shown, history,
                   operands, partVerdicts>>

\* lines 755-756 and 764-783: downloadLocalModel has returned
LocalModelReady ==
    /\ pc = "localSetup"
    /\ \E t \in DOMAIN calls : calls[t] = [fn |-> "config", at |-> "returned"]
    /\ writeConfig(config)
    /\ UNCHANGED engineVars
    /\ UNCHANGED <<userPrompt, explainMode, dryRun, rawModelOutput, command,
                   explanation, verdict, confirm, asked, execLog, shown, history,
                   operands, partVerdicts>>

NextConfig ==
    \/ ChooseProvider
    \/ EnterOpenAIKey
    \/ EnterGeminiKey
    \/ \E t \in DOMAIN calls : DownloadSucceeds(t)
    \/ \E t \in DOMAIN calls : DownloadFails(t)
    \/ LocalModelReady

SpecConfig == InitConfig /\ [][NextConfig]_vars

SavedConfig == configFile.content

=============================================================================
